---------------------------- MODULE Spec2Model ----------------------------
(***************************************************************************)
(* The endpoint load balancer of the inference gateway                     *)
(* (server/src/openai_v1/manager/load_balancer.py) and the dispatch        *)
(* functions that wrap every downstream call with start/end accounting     *)
(* (server/src/openai_v1/manager/openai_*.py, triton_*.py).                *)
(*                                                                         *)
(* Time is counted in whole minutes.  An endpoint key f"{host}:{port}" is  *)
(* the pair <<host, port>>: the format is injective for integer ports.     *)
(***************************************************************************)
EXTENDS Integers, Sequences, FiniteSets, TLC

VARIABLES
    strategy,               \* LoadBalancer.strategy
    endpoint_stats,         \* LoadBalancer._endpoint_stats : model -> key -> EndpointStats
    round_robin_counters,   \* LoadBalancer._round_robin_counters : model -> int
    now,                    \* datetime.now(), in minutes
    thread,                 \* per caller: where it stands inside get_endpoint, and what it got
    req,                    \* per caller: the dispatch function it runs, if any
    history                 \* the get_endpoint selections of a sequential client

lbvars == <<strategy, endpoint_stats, round_robin_counters, now>>
vars == <<strategy, endpoint_stats, round_robin_counters, now, thread, req, history>>

(* ------------------------------ bounds -------------------------------- *)

MaxTime == 6
MaxRequests == 1
MaxFailures == 3
MaxCounter == 3
MaxRounds == 2
MaxResets == 1

(* ------------------------- program constants -------------------------- *)

FailureThreshold == 3
HealthWindow == 5
DefaultPort == 8000

None == "None"
NoTime == -1
Strategies == {"round_robin", "random", "least_connections", "weighted_round_robin"}

(* --------------------------- EndpointStats ---------------------------- *)

NewStats(host, port) ==
    [host |-> host, port |-> port, active_connections |-> 0,
     total_requests |-> 0, total_failures |-> 0,
     last_failure |-> NoTime, consecutive_failures |-> 0]

is_healthy_late(s, t) ==
    ~ (s.consecutive_failures > FailureThreshold
       /\ s.last_failure # NoTime /\ (t - s.last_failure) < HealthWindow)

is_healthy_forever(s, t) ==
    ~ (s.consecutive_failures >= FailureThreshold /\ s.last_failure # NoTime)

\* EndpointStats.is_healthy, read at time t
is_healthy(s, t) ==
    ~ (s.consecutive_failures >= FailureThreshold
       /\ s.last_failure # NoTime /\ (t - s.last_failure) < HealthWindow)

Max(a, b) == IF a >= b THEN a ELSE b

weight_nofloor(s, t) ==
    IF ~ is_healthy(s, t) THEN <<0, 1>>
    ELSE IF s.total_requests = 0 THEN <<1, 1>>
    ELSE <<10 * s.total_requests - 10 * s.total_failures, 10 * s.total_requests>>

\* EndpointStats.weight as the exact fraction <<numerator, denominator>>:
\* max(0.1, 1 - f/r) = max(r, 10r - 10f) / 10r
weight(s, t) ==
    IF ~ is_healthy(s, t) THEN <<0, 1>>
    ELSE IF s.total_requests = 0 THEN <<1, 1>>
    ELSE <<Max(s.total_requests, 10 * s.total_requests - 10 * s.total_failures),
           10 * s.total_requests>>

(* ------------------------ the stats table ----------------------------- *)

Key(host, port) == <<host, port>>

\* defaultdict(dict).__getitem__: reading a missing model inserts an empty dict
Touch(es, m) == IF m \in DOMAIN es THEN es ELSE (m :> <<>>) @@ es

\* defaultdict(int).__getitem__
TouchCounter(rr, m) == IF m \in DOMAIN rr THEN rr ELSE (m :> 0) @@ rr

Put_shared(es, m, k, s) ==
    [x \in DOMAIN Touch(es, m) |->
        IF x = m \/ k \in DOMAIN Touch(es, m)[x]
        THEN (k :> s) @@ Touch(es, m)[x] ELSE Touch(es, m)[x]]

Put(es, m, k, s) == (m :> ((k :> s) @@ Touch(es, m)[m])) @@ es

Zip(hosts, ports) == [i \in 1 .. Len(hosts) |-> <<hosts[i], ports[i]>>]

Range(f) == {f[i] : i \in DOMAIN f}

RECURSIVE Filter(_, _, _, _)
\* the order-preserving subsequence of the pairs whose entry is healthy
Filter(pairs, table, t, i) ==
    IF i > Len(pairs) THEN <<>>
    ELSE (IF is_healthy(table[Key(pairs[i][1], pairs[i][2])], t)
          THEN <<pairs[i]>> ELSE <<>>) \o Filter(pairs, table, t, i + 1)

\* LoadBalancer._get_healthy_endpoints: a KeyError when an entry is missing
MissingEntry(es, hosts, ports, m) ==
    \E i \in 1 .. Len(hosts) : Key(hosts[i], ports[i]) \notin DOMAIN Touch(es, m)[m]

_get_healthy_endpoints_nofilter(es, hosts, ports, m, t) == Zip(hosts, ports)

_get_healthy_endpoints(es, hosts, ports, m, t) ==
    Filter(Zip(hosts, ports), Touch(es, m)[m], t, 1)

Candidates_nofallback(es, hosts, ports, m, t) ==
    Filter(Zip(hosts, ports), Touch(es, m)[m], t, 1)

\* "if not healthy_endpoints: healthy_endpoints = list(zip(hosts, ports))"
Candidates(es, hosts, ports, m, t) ==
    LET h == _get_healthy_endpoints(es, hosts, ports, m, t)
    IN  IF h = <<>> THEN Zip(hosts, ports) ELSE h


(* ----------------------- selection strategies ------------------------- *)

Repeat(x, n) == [i \in 1 .. n |-> x]

NormalizePorts_lastport(hosts, ports) ==
    IF Len(ports) = 1 THEN Repeat(ports[1], Len(hosts))
    ELSE IF Len(ports) # Len(hosts) THEN Repeat(ports[Len(ports)], Len(hosts))
    ELSE ports

\* get_endpoint, "Normalize ports to match hosts length" (hosts has 2+ entries,
\* ports is not empty)
NormalizePorts(hosts, ports) ==
    IF Len(ports) = 1 THEN Repeat(ports[1], Len(hosts))
    ELSE IF Len(ports) # Len(hosts) THEN Repeat(ports[1], Len(hosts))
    ELSE ports

EnsureEntries_overwrite(es, hosts, ports, m) ==
    LET old == Touch(es, m)[m]
        all == {Key(hosts[i], ports[i]) : i \in 1 .. Len(hosts)}
    IN  (m :> ([k \in all |-> NewStats(k[1], k[2])] @@ old)) @@ es

\* get_endpoint, "Initialize endpoint stats if not exists"
EnsureEntries(es, hosts, ports, m) ==
    LET old == Touch(es, m)[m]
        fresh == {Key(hosts[i], ports[i]) : i \in 1 .. Len(hosts)} \ DOMAIN old
    IN  (m :> ([k \in fresh |-> NewStats(k[1], k[2])] @@ old)) @@ es

_round_robin_select_first(cands, counter) == {cands[1]}

\* _round_robin_select: healthy_endpoints[counter % len(healthy_endpoints)]
_round_robin_select(cands, counter) == {cands[(counter % Len(cands)) + 1]}

\* _random_select: random.choice(healthy_endpoints)
_random_select(cands) == Range(cands)

_least_connections_select_head(cands, table) == {cands[1]}

_least_connections_select_last(cands, table) ==
    LET ac(i) == table[Key(cands[i][1], cands[i][2])].active_connections
        last == CHOOSE i \in 1 .. Len(cands) :
                    /\ \A j \in 1 .. Len(cands) : ac(i) <= ac(j)
                    /\ \A j \in (i + 1) .. Len(cands) : ac(j) > ac(i)
    IN  {cands[last]}

\* _least_connections_select: the first candidate with the fewest connections
_least_connections_select(cands, table) ==
    LET ac(i) == table[Key(cands[i][1], cands[i][2])].active_connections
        first == CHOOSE i \in 1 .. Len(cands) :
                    /\ \A j \in 1 .. Len(cands) : ac(i) <= ac(j)
                    /\ \A j \in 1 .. (i - 1) : ac(j) > ac(i)
    IN  {cands[first]}

\* _weighted_round_robin_select: random.choices(healthy_endpoints, weights),
\* all weights replaced by 1.0 when they sum to 0
_weighted_round_robin_select(cands, table, t) ==
    LET w(i) == weight(table[Key(cands[i][1], cands[i][2])], t)[1]
    IN  IF \A i \in 1 .. Len(cands) : w(i) = 0 THEN Range(cands)
        ELSE {cands[i] : i \in {j \in 1 .. Len(cands) : w(j) > 0}}

UsesCounter_never(st) == FALSE

UsesCounter(st) == st \notin {"random", "least_connections", "weighted_round_robin"}

\* the strategy dispatch at the end of get_endpoint: the pairs it may return
Selected(st, es, rr, hosts, ports, m, t) ==
    LET cands == Candidates(es, hosts, ports, m, t)
        table == es[m]
    IN  IF st = "random" THEN _random_select(cands)
        ELSE IF st = "least_connections" THEN _least_connections_select(cands, table)
        ELSE IF st = "weighted_round_robin" THEN _weighted_round_robin_select(cands, table, t)
        ELSE _round_robin_select(cands, TouchCounter(rr, m)[m])

(* ----------------------- LoadBalancer.get_endpoint -------------------- *)

\* a caller's frame: pc is idle, select (between the two critical sections of
\* get_endpoint), returned or raised; ret is the pair returned or the exception;
\* warned records the "No healthy endpoints ..., using all endpoints" warning
Frame(pc, hosts, ports, m, ret, warned) ==
    [pc |-> pc, hosts |-> hosts, ports |-> ports, model_name |-> m, ret |-> ret,
     warned |-> warned]

Idle == Frame("idle", <<>>, <<>>, None, <<>>, FALSE)

GetEndpointBegin_noshortcut(t, hosts, ports, m) ==
    /\ thread[t].pc = "idle"
    /\ IF hosts = <<>> \/ ports = <<>>
       THEN /\ thread' = [thread EXCEPT ![t] =
                 Frame("raised", hosts, ports, m, <<"ValueError">>, FALSE)]
            /\ UNCHANGED lbvars
       ELSE /\ endpoint_stats' = EnsureEntries(endpoint_stats, hosts, NormalizePorts(hosts, ports), m)
            /\ thread' = [thread EXCEPT ![t] =
                 Frame("select", hosts, NormalizePorts(hosts, ports), m, <<>>, FALSE)]
            /\ UNCHANGED <<strategy, round_robin_counters, now>>

\* get_endpoint up to the end of its first critical section
GetEndpointBegin(t, hosts, ports, m) ==
    /\ thread[t].pc = "idle"
    /\ IF hosts = <<>>
       THEN /\ thread' = [thread EXCEPT ![t] =
                 Frame("raised", hosts, ports, m, <<"ValueError">>, FALSE)]
            /\ UNCHANGED lbvars
       ELSE IF Len(hosts) = 1
       THEN /\ thread' = [thread EXCEPT ![t] =
                 Frame("returned", hosts, ports, m,
                       <<hosts[1], IF ports # <<>> THEN ports[1] ELSE DefaultPort>>, FALSE)]
            /\ UNCHANGED lbvars
       ELSE IF ports = <<>>
       THEN \* Len(ports) # Len(hosts), and ports[0] raises
            /\ thread' = [thread EXCEPT ![t] =
                 Frame("raised", hosts, ports, m, <<"IndexError">>, FALSE)]
            /\ UNCHANGED lbvars
       ELSE /\ endpoint_stats' = EnsureEntries(endpoint_stats, hosts, NormalizePorts(hosts, ports), m)
            /\ thread' = [thread EXCEPT ![t] =
                 Frame("select", hosts, NormalizePorts(hosts, ports), m, <<>>, FALSE)]
            /\ UNCHANGED <<strategy, round_robin_counters, now>>

\* the strategy selector: the second critical section of get_endpoint
GetEndpointSelect(t) ==
    LET f == thread[t]
        m == f.model_name
        warned == _get_healthy_endpoints(endpoint_stats, f.hosts, f.ports, m, now) = <<>>
    IN  /\ f.pc = "select"
        /\ IF MissingEntry(endpoint_stats, f.hosts, f.ports, m)
           THEN /\ endpoint_stats' = Touch(endpoint_stats, m)
                /\ thread' = [thread EXCEPT ![t] =
                     Frame("raised", f.hosts, f.ports, m, <<"KeyError">>, FALSE)]
                /\ UNCHANGED <<strategy, round_robin_counters, now>>
           ELSE IF Candidates(endpoint_stats, f.hosts, f.ports, m, now) = <<>>
           THEN \* indexing, random.choice or "%" on an empty list raises
                /\ thread' = [thread EXCEPT ![t] =
                     Frame("raised", f.hosts, f.ports, m, <<"IndexError">>, warned)]
                /\ UNCHANGED lbvars
           ELSE /\ UsesCounter(strategy) => TouchCounter(round_robin_counters, m)[m] < MaxCounter
                /\ \E pick \in Selected(strategy, endpoint_stats, round_robin_counters,
                                        f.hosts, f.ports, m, now) :
                      thread' = [thread EXCEPT ![t] =
                         Frame("returned", f.hosts, f.ports, m, pick, warned)]
                /\ round_robin_counters' =
                      IF UsesCounter(strategy)
                      THEN (m :> (TouchCounter(round_robin_counters, m)[m] + 1)) @@ round_robin_counters
                      ELSE round_robin_counters
                /\ UNCHANGED <<strategy, endpoint_stats, now>>

\* the caller takes the result (or the exception) of get_endpoint
GetEndpointReturn(t) ==
    /\ thread[t].pc \in {"returned", "raised"}
    /\ thread' = [thread EXCEPT ![t] = Idle]
    /\ UNCHANGED lbvars

(* ------------------ mark_request_start / mark_request_end ------------- *)

StartedStats(s) ==
    [s EXCEPT !.active_connections = @ + 1, !.total_requests = @ + 1]

EndedStats_nofloor(s, success, t) ==
    IF success
    THEN [s EXCEPT !.active_connections = @ - 1, !.consecutive_failures = 0]
    ELSE [s EXCEPT !.active_connections = @ - 1,
                   !.total_failures = @ + 1, !.consecutive_failures = @ + 1,
                   !.last_failure = t]

EndedStats_keepstreak(s, success, t) ==
    IF success
    THEN [s EXCEPT !.active_connections = Max(0, @ - 1)]
    ELSE [s EXCEPT !.active_connections = Max(0, @ - 1),
                   !.total_failures = @ + 1, !.consecutive_failures = @ + 1,
                   !.last_failure = t]

EndedStats_restart(s, success, t) ==
    IF success
    THEN [s EXCEPT !.active_connections = Max(0, @ - 1), !.consecutive_failures = 0]
    ELSE [s EXCEPT !.active_connections = Max(0, @ - 1),
                   !.total_failures = @ + 1,
                   !.consecutive_failures =
                       IF s.last_failure # NoTime /\ (t - s.last_failure) > HealthWindow
                       THEN 1 ELSE @ + 1,
                   !.last_failure = t]

\* the body of mark_request_end on an existing entry
EndedStats(s, success, t) ==
    IF success
    THEN [s EXCEPT !.active_connections = Max(0, @ - 1), !.consecutive_failures = 0]
    ELSE [s EXCEPT !.active_connections = Max(0, @ - 1),
                   !.total_failures = @ + 1, !.consecutive_failures = @ + 1,
                   !.last_failure = t]

mark_request_start_create(es, host, port, m) ==
    IF Key(host, port) \in DOMAIN Touch(es, m)[m]
    THEN Put(es, m, Key(host, port), StartedStats(es[m][Key(host, port)]))
    ELSE Put(es, m, Key(host, port), StartedStats(NewStats(host, port)))

mark_request_start(es, host, port, m) ==
    IF Key(host, port) \in DOMAIN Touch(es, m)[m]
    THEN Put(es, m, Key(host, port), StartedStats(es[m][Key(host, port)]))
    ELSE Touch(es, m)

mark_request_end(es, host, port, m, success, t) ==
    IF Key(host, port) \in DOMAIN Touch(es, m)[m]
    THEN Put(es, m, Key(host, port), EndedStats(es[m][Key(host, port)], success, t))
    ELSE Touch(es, m)

Field(es, host, port, m, fld) ==
    IF m \in DOMAIN es /\ Key(host, port) \in DOMAIN es[m]
    THEN es[m][Key(host, port)][fld] ELSE 0

MarkRequestStart(host, port, m) ==
    /\ Field(endpoint_stats, host, port, m, "total_requests") < MaxRequests
    /\ endpoint_stats' = mark_request_start(endpoint_stats, host, port, m)
    /\ UNCHANGED <<strategy, round_robin_counters, now>>

MarkRequestEnd(host, port, m, success) ==
    /\ ~ success => Field(endpoint_stats, host, port, m, "total_failures") < MaxFailures
    /\ endpoint_stats' = mark_request_end(endpoint_stats, host, port, m, success, now)
    /\ UNCHANGED <<strategy, round_robin_counters, now>>

(* ------------------------ get_stats / reset_stats --------------------- *)

\* get_stats returns a snapshot; reading the model's dict may insert it
GetStats(m) ==
    /\ endpoint_stats' = Touch(endpoint_stats, m)
    /\ UNCHANGED <<strategy, round_robin_counters, now>>

ResetStats_all(m) ==
    /\ endpoint_stats' = <<>>
    /\ round_robin_counters' = <<>>
    /\ UNCHANGED <<strategy, now>>

\* reset_stats(model_name), model_name = None for all models
ResetStats(m) ==
    /\ IF m # None
       THEN IF m \in DOMAIN endpoint_stats
            THEN /\ endpoint_stats' = (m :> <<>>) @@ endpoint_stats
                 /\ round_robin_counters' = (m :> 0) @@ round_robin_counters
            ELSE UNCHANGED <<endpoint_stats, round_robin_counters>>
       ELSE /\ endpoint_stats' = <<>>
            /\ round_robin_counters' = <<>>
    /\ UNCHANGED <<strategy, now>>

\* a minute passes
Tick ==
    /\ now < MaxTime
    /\ now' = now + 1
    /\ UNCHANGED <<strategy, endpoint_stats, round_robin_counters>>


(* --------------- the balancer under arbitrary callers ----------------- *)

Callers == {"t1"}
ModelNames == {"m1"}
HostLists == {<<>>, <<"a">>, <<"a", "b">>}
PortLists == {<<>>, <<80>>}
Endpoints == {<<"a", 80>>, <<"b", 80>>}

NoRequest ==
    [fn |-> None, pc |-> "none", host |-> None, port |-> 0, model |-> None,
     nGet |-> 0, nStart |-> 0, ends |-> <<>>, exc |-> None, chunks |-> 0,
     cause |-> None, raised |-> None, sent |-> <<>>]
NoHistory == [healthy |-> <<>>, picks |-> <<>>, reset |-> FALSE]

InitBalancer(strategies) ==
    /\ strategy \in strategies
    /\ endpoint_stats = <<>>
    /\ round_robin_counters = <<>>
    /\ now = 0
    /\ thread = [t \in Callers |-> Idle]
    /\ req = [t \in Callers |-> NoRequest]
    /\ history = NoHistory

Init == InitBalancer(Strategies \cup {"unknown"})

ApiGetEndpoint ==
    /\ \E t \in DOMAIN thread, hosts \in HostLists, ports \in PortLists, m \in ModelNames :
          GetEndpointBegin(t, hosts, ports, m)
    /\ UNCHANGED <<req, history>>

ApiSelect ==
    /\ \E t \in DOMAIN thread : GetEndpointSelect(t)
    /\ UNCHANGED <<req, history>>

ApiReturn ==
    /\ \E t \in DOMAIN thread : GetEndpointReturn(t)
    /\ UNCHANGED <<req, history>>

ApiMarkRequestStart ==
    /\ \E e \in Endpoints, m \in ModelNames : MarkRequestStart(e[1], e[2], m)
    /\ UNCHANGED <<thread, req, history>>

ApiMarkRequestEnd ==
    /\ \E e \in Endpoints, m \in ModelNames, success \in BOOLEAN :
          MarkRequestEnd(e[1], e[2], m, success)
    /\ UNCHANGED <<thread, req, history>>

ApiGetStats ==
    /\ \E m \in ModelNames : GetStats(m)
    /\ UNCHANGED <<thread, req, history>>

ApiResetStats ==
    /\ \E m \in ModelNames \cup {None} : ResetStats(m)
    /\ UNCHANGED <<thread, req, history>>

Next ==
    \/ ApiGetEndpoint
    \/ ApiSelect
    \/ ApiReturn
    \/ ApiMarkRequestStart
    \/ ApiMarkRequestEnd
    \/ ApiGetStats
    \/ ApiResetStats

Spec == Init /\ [][Next]_vars

(* ------------- health over time: failures, successes, the clock ------- *)

InitHealth == InitBalancer(Strategies)

HealthGetEndpoint ==
    /\ \E t \in DOMAIN thread, m \in ModelNames :
          GetEndpointBegin(t, <<"a", "b">>, <<80>>, m)
    /\ UNCHANGED <<req, history>>

HealthTick ==
    /\ Tick
    /\ UNCHANGED <<thread, req, history>>

NextHealth ==
    \/ HealthGetEndpoint
    \/ ApiSelect
    \/ ApiReturn
    \/ ApiMarkRequestEnd
    \/ HealthTick

SpecHealth == InitHealth /\ [][NextHealth]_vars

(* ------------- round robin seen by a sequential client ---------------- *)

RRHosts == <<"a", "b", "c">>
RRPorts == <<80, 80, 80>>
RREndpoints == Range(Zip(RRHosts, RRPorts))

Last(q, n) == IF Len(q) <= n THEN q ELSE SubSeq(q, Len(q) - n + 1, Len(q))

\* the healthy subset of the configured list, as get_endpoint would compute it
HealthyNow(es, m, t) ==
    IF MissingEntry(es, RRHosts, RRPorts, m) THEN <<>>
    ELSE _get_healthy_endpoints(es, RRHosts, RRPorts, m, t)

InitRoundRobin == InitBalancer({"round_robin"})

RRGetEndpoint ==
    /\ \E t \in DOMAIN thread, m \in ModelNames : GetEndpointBegin(t, RRHosts, <<80>>, m)
    /\ UNCHANGED <<req, history>>

\* the selection, and the record of it: the healthy list it chose from, the
\* counter it read, the pair it returned, and whether reset_stats ran since
\* the previous selection.  The record keeps the last N selections made from
\* the same healthy list of N endpoints.
RRSelect ==
    /\ \E t \in DOMAIN thread :
          /\ GetEndpointSelect(t)
          /\ LET m == thread[t].model_name
                 h == HealthyNow(endpoint_stats, m, now)
                 rec == [counter |-> TouchCounter(round_robin_counters, m)[m],
                         pick |-> thread'[t].ret,
                         reset |-> history.reset]
             IN  history' =
                    IF thread'[t].pc # "returned" THEN history
                    ELSE IF h = history.healthy
                    THEN [healthy |-> h, picks |-> Last(Append(history.picks, rec), Len(h)),
                          reset |-> FALSE]
                    ELSE [healthy |-> h, picks |-> <<rec>>, reset |-> FALSE]
    /\ UNCHANGED req

\* the outcome of a request changes an endpoint's health: the healthy set is
\* no longer the one the recorded selections were made from
RRMarkRequestEnd ==
    /\ \E e \in RREndpoints, m \in ModelNames, success \in BOOLEAN :
          /\ MarkRequestEnd(e[1], e[2], m, success)
          /\ history' =
                IF HealthyNow(endpoint_stats', m, now) = HealthyNow(endpoint_stats, m, now)
                THEN history ELSE NoHistory
    /\ UNCHANGED <<thread, req>>

RRResetStats ==
    /\ \E m \in ModelNames : ResetStats(m)
    /\ history' = [history EXCEPT !.reset = TRUE]
    /\ UNCHANGED <<thread, req>>

NextRoundRobin ==
    \/ RRGetEndpoint
    \/ RRSelect
    \/ ApiReturn
    \/ RRMarkRequestEnd
    \/ RRResetStats

SpecRoundRobin == InitRoundRobin /\ [][NextRoundRobin]_vars

(* ------------- least connections seen by a sequential client ---------- *)

MaxConnections == 3

\* active_connections of the configured endpoints, in list order
ActiveVector(es, m) ==
    [i \in 1 .. Len(RRHosts) |-> Field(es, RRHosts[i], RRPorts[i], m, "active_connections")]

\* the record of one client: a selection made at connections [3, 0, 1], the
\* mark_request_start on the endpoint it got, and the selection after that
NoScenario == [phase |-> "none", first |-> <<>>, second |-> <<>>]

InitLeastConnections ==
    /\ strategy = "least_connections"
    /\ endpoint_stats = <<>>
    /\ round_robin_counters = <<>>
    /\ now = 0
    /\ thread = [t \in Callers |-> Idle]
    /\ req = [t \in Callers |-> NoRequest]
    /\ history = NoScenario

LCGetEndpoint ==
    /\ \E t \in DOMAIN thread, m \in ModelNames : GetEndpointBegin(t, RRHosts, <<80>>, m)
    /\ UNCHANGED <<req, history>>

LCSelect ==
    /\ \E t \in DOMAIN thread :
          /\ GetEndpointSelect(t)
          /\ history' =
                IF thread'[t].pc # "returned" THEN NoScenario
                ELSE IF history.phase = "started"
                THEN [history EXCEPT !.phase = "second", !.second = thread'[t].ret]
                ELSE IF ActiveVector(endpoint_stats, thread[t].model_name) = <<3, 0, 1>>
                THEN [phase |-> "picked", first |-> thread'[t].ret, second |-> <<>>]
                ELSE NoScenario
    /\ UNCHANGED req

LCReturn ==
    /\ \E t \in DOMAIN thread : GetEndpointReturn(t)
    /\ UNCHANGED <<req, history>>

LCMarkRequestStart ==
    /\ \E e \in RREndpoints, m \in ModelNames :
          /\ Field(endpoint_stats, e[1], e[2], m, "active_connections") < MaxConnections
          /\ endpoint_stats' = mark_request_start(endpoint_stats, e[1], e[2], m)
          /\ history' =
                IF history.phase = "picked" /\ history.first = e
                THEN [history EXCEPT !.phase = "started"] ELSE NoScenario
    /\ UNCHANGED <<strategy, round_robin_counters, now, thread, req>>

NextLeastConnections ==
    \/ LCGetEndpoint
    \/ LCSelect
    \/ LCReturn
    \/ LCMarkRequestStart

SpecLeastConnections == InitLeastConnections /\ [][NextLeastConnections]_vars

(* ------------------------ the dispatch functions ---------------------- *)

MaxChunks == 1

\* A request record: the function, where it stands (pc), the endpoint it got,
\* the calls it made to the balancer (nGet, nStart, ends: the success flags of
\* its mark_request_end calls in order), the exception that left it (exc),
\* the step that raised and what it raised (cause, raised) and the items it
\* yielded so far (sent).
\*
\* What tells the dispatch functions apart:
\*   stream      an async generator of SSE chunks, or a buffered call
\*   awaits      the downstream call is awaited (a cancellation point)
\*   end_success where mark_request_end(success=True) stands: right after the
\*               downstream call, after the translation of the response, or
\*               after the usage log
\*   reraised    the exceptions a handler re-raises without touching the balancer
\*   bad_request a BadRequestError handler that may raise ValueError
openai_chat_completion ==
    [stream |-> FALSE, awaits |-> TRUE, end_success |-> "translate",
     reraised |-> {}, bad_request |-> FALSE]

openai_chat_completion_generator ==
    [stream |-> TRUE, awaits |-> TRUE, end_success |-> "log",
     reraised |-> {}, bad_request |-> FALSE]

openai_embeddings ==
    [stream |-> FALSE, awaits |-> TRUE, end_success |-> "translate",
     reraised |-> {}, bad_request |-> FALSE]

openai_responses ==
    [stream |-> FALSE, awaits |-> TRUE, end_success |-> "translate",
     reraised |-> {}, bad_request |-> FALSE]

openai_responses_generator ==
    [stream |-> TRUE, awaits |-> TRUE, end_success |-> "log",
     reraised |-> {}, bad_request |-> FALSE]

openai_audio_transcription ==
    [stream |-> FALSE, awaits |-> TRUE, end_success |-> "translate",
     reraised |-> {"ValueError"}, bad_request |-> TRUE]

triton_embeddings ==
    [stream |-> FALSE, awaits |-> FALSE, end_success |-> "call",
     reraised |-> {}, bad_request |-> FALSE]

triton_audio_transcription ==
    [stream |-> FALSE, awaits |-> FALSE, end_success |-> "call",
     reraised |-> {}, bad_request |-> FALSE]

DispatchFunctions ==
    {"openai_chat_completion", "openai_chat_completion_generator", "openai_embeddings",
     "openai_responses", "openai_responses_generator", "openai_audio_transcription",
     "triton_embeddings", "triton_audio_transcription"}

Fn(name) ==
    CASE name = "openai_chat_completion" -> openai_chat_completion
      [] name = "openai_chat_completion_generator" -> openai_chat_completion_generator
      [] name = "openai_embeddings" -> openai_embeddings
      [] name = "openai_responses" -> openai_responses
      [] name = "openai_responses_generator" -> openai_responses_generator
      [] name = "openai_audio_transcription" -> openai_audio_transcription
      [] name = "triton_embeddings" -> triton_embeddings
      [] name = "triton_audio_transcription" -> triton_audio_transcription

\* the configured hosts and port of the one model
ModelHosts == <<"a", "b">>
ModelPorts == <<80>>

\* exceptions that derive from BaseException only: "except Exception" lets them pass
BaseExceptions == {"CancelledError", "GeneratorExit"}

\* lb.mark_request_end(host, port, model, success=...) of request r
End(r, success) ==
    /\ endpoint_stats' = mark_request_end(endpoint_stats, r.host, r.port, r.model, success, now)
    /\ UNCHANGED <<strategy, round_robin_counters, now>>

Raise_throwing(t, e) ==
    LET r == req[t]
    IN  /\ End(r, FALSE)
        /\ req' = [req EXCEPT ![t] =
              [r EXCEPT !.pc = "done", !.exc = "RuntimeError", !.ends = Append(@, FALSE),
                        !.cause = r.pc, !.raised = e]]

\* exception e is raised inside the try block of request r of caller t
Raise(t, e) ==
    LET r == req[t]
        d == Fn(r.fn)
    IN  IF e \in BaseExceptions \/ e \in d.reraised
        THEN \* no handler, or "except ValueError: raise"
             /\ req' = [req EXCEPT ![t] = [r EXCEPT !.pc = "done", !.exc = e,
                                                         !.cause = r.pc, !.raised = e]]
             /\ UNCHANGED lbvars
        ELSE \* the handlers: mark_request_end(success=False), then raise or yield
             /\ End(r, FALSE)
             /\ IF d.stream
                THEN req' = [req EXCEPT ![t] =
                        [r EXCEPT !.pc = "yield_error", !.ends = Append(@, FALSE),
                                  !.cause = r.pc, !.raised = e,
                                  !.sent = Append(@, "error")]]
                ELSE \E x \in (IF e = "BadRequestError" /\ d.bad_request
                               THEN {"ValueError", "RuntimeError"} ELSE {"RuntimeError"}) :
                        req' = [req EXCEPT ![t] =
                           [r EXCEPT !.pc = "done", !.exc = x, !.ends = Append(@, FALSE),
                                     !.cause = r.pc, !.raised = e]]

\* the try block of request r moves on to pc; mark_request_end(success=True)
\* runs on the way if it stands at this point of the function
Proceed(t, here, pc) ==
    LET r == req[t]
    IN  IF Fn(r.fn).end_success = here
        THEN /\ End(r, TRUE)
             /\ req' = [req EXCEPT ![t] = [r EXCEPT !.pc = pc, !.ends = Append(@, TRUE)]]
        ELSE /\ req' = [req EXCEPT ![t] = [r EXCEPT !.pc = pc]]
             /\ UNCHANGED lbvars

\* lb.get_endpoint(model.host, model.port, body.model), up to the end of its
\* first critical section
DispatchGetEndpoint ==
    /\ \E t \in DOMAIN thread, fn \in DispatchFunctions, m \in ModelNames :
          /\ req[t].pc \in {"none", "done"}
          /\ \E e \in Endpoints :
                Field(endpoint_stats, e[1], e[2], m, "total_requests") < MaxRequests
          /\ GetEndpointBegin(t, ModelHosts, ModelPorts, m)
          /\ req' = [req EXCEPT ![t] =
                [fn |-> fn, pc |-> "get_endpoint", host |-> None, port |-> 0, model |-> m,
                 nGet |-> 1, nStart |-> 0, ends |-> <<>>, exc |-> None, chunks |-> 0,
                 cause |-> None, raised |-> None, sent |-> <<>>]]
    /\ UNCHANGED history

\* the model names a client may ask for
RequestedModels == ModelNames \cup {"unknown"}

\* config.get_model_config(name): <<the model's configuration>>, or <<>> for None
get_model_config(name) ==
    IF name \in ModelNames THEN <<[host |-> ModelHosts, port |-> ModelPorts]>> ELSE <<>>

DispatchModelNotFound_late ==
    /\ \E t \in DOMAIN thread, fn \in DispatchFunctions, m \in RequestedModels :
          /\ req[t].pc \in {"none", "done"}
          /\ get_model_config(m) = <<>>
          /\ endpoint_stats' = EnsureEntries(endpoint_stats, ModelHosts, <<80, 80>>, m)
          /\ req' = [req EXCEPT ![t] =
                [NoRequest EXCEPT !.fn = fn, !.pc = "done", !.model = m, !.nGet = 1,
                                  !.exc = "ValueError"]]
    /\ UNCHANGED <<strategy, round_robin_counters, now, thread, history>>

\* "if not model: raise ValueError(f'Model not found: ...')", the first
\* statements of every dispatch function
DispatchModelNotFound ==
    /\ \E t \in DOMAIN thread, fn \in DispatchFunctions, m \in RequestedModels :
          /\ req[t].pc \in {"none", "done"}
          /\ get_model_config(m) = <<>>
          /\ req' = [req EXCEPT ![t] =
                [NoRequest EXCEPT !.fn = fn, !.pc = "done", !.model = m,
                                  !.exc = "ValueError"]]
    /\ UNCHANGED <<lbvars, thread, history>>

\* host, port = <the result>; lb.mark_request_start(host, port, body.model)
DispatchMarkRequestStart ==
    /\ \E t \in DOMAIN thread :
          /\ req[t].pc = "get_endpoint"
          /\ thread[t].pc = "returned"
          /\ MarkRequestStart(thread[t].ret[1], thread[t].ret[2], req[t].model)
          /\ thread' = [thread EXCEPT ![t] = Idle]
          /\ req' = [req EXCEPT ![t] =
                [@ EXCEPT !.pc = "call", !.host = thread[t].ret[1],
                          !.port = thread[t].ret[2], !.nStart = @ + 1]]
    /\ UNCHANGED history

CallOutcomes(d) ==
    {"ok", "APIError", "Exception"}
        \cup (IF d.awaits THEN {"CancelledError"} ELSE {})
        \cup (IF d.bad_request THEN {"BadRequestError"} ELSE {})

\* the downstream call: client.<api>.create(...) awaited, or triton_client.infer(...)
DispatchCall ==
    /\ \E t \in DOMAIN thread :
          /\ req[t].pc = "call"
          /\ \E outcome \in CallOutcomes(Fn(req[t].fn)) :
                IF outcome = "ok"
                THEN Proceed(t, "call", IF Fn(req[t].fn).stream THEN "stream" ELSE "translate")
                ELSE Raise(t, outcome)
    /\ UNCHANGED <<thread, history>>

\* a buffered function builds its response object from the downstream response
DispatchTranslate ==
    /\ \E t \in DOMAIN thread :
          /\ req[t].pc = "translate"
          /\ \E outcome \in {"ok", "ValueError", "Exception"} :
                IF outcome = "ok" THEN Proceed(t, "translate", "log") ELSE Raise(t, outcome)
    /\ UNCHANGED <<thread, history>>

\* the usage log, inside the try block; then the return, or the end of the generator
DispatchLogUsage ==
    /\ \E t \in DOMAIN thread :
          /\ req[t].pc = "log"
          /\ \E outcome \in {"ok", "Exception"} :
                IF outcome = "ok" THEN Proceed(t, "log", "done") ELSE Raise(t, outcome)
    /\ UNCHANGED <<thread, history>>

\* "async for chunk in stream": the next chunk, the end of the stream, or an exception
StreamNext ==
    /\ \E t \in DOMAIN thread :
          /\ req[t].pc = "stream"
          /\ \E outcome \in {"chunk", "exhausted", "APIError", "Exception", "CancelledError"} :
                IF outcome = "chunk"
                THEN /\ req[t].chunks < MaxChunks
                     /\ req' = [req EXCEPT ![t] =
                           [@ EXCEPT !.pc = "yield_chunk", !.chunks = @ + 1,
                                     !.sent = Append(@, "chunk")]]
                     /\ UNCHANGED lbvars
                ELSE IF outcome = "exhausted"
                THEN /\ req' = [req EXCEPT ![t] =
                           [@ EXCEPT !.pc = "yield_done", !.sent = Append(@, "[DONE]")]]
                     /\ UNCHANGED lbvars
                ELSE Raise(t, outcome)
    /\ UNCHANGED <<thread, history>>

\* the generator is suspended at a yield: the consumer asks for the next
\* item, or closes the generator (GeneratorExit is raised at the yield)
StreamResume ==
    /\ \E t \in DOMAIN thread :
          /\ req[t].pc \in {"yield_chunk", "yield_done", "yield_error", "yield_error_done"}
          /\ \E consumer \in {"next", "close"} :
                IF consumer = "close"
                THEN req' = [req EXCEPT ![t] = [@ EXCEPT !.pc = "done", !.exc = "GeneratorExit"]]
                ELSE req' = [req EXCEPT ![t] = [@ EXCEPT
                        !.pc = CASE req[t].pc = "yield_chunk" -> "stream"
                                 [] req[t].pc = "yield_done" -> "log"
                                 [] req[t].pc = "yield_error" -> "yield_error_done"
                                 [] req[t].pc = "yield_error_done" -> "done",
                        !.sent = IF req[t].pc = "yield_error" THEN Append(@, "[DONE]") ELSE @]]
    /\ UNCHANGED <<lbvars, thread, history>>

InitDispatch == InitBalancer({"round_robin"})

NextDispatch ==
    \/ DispatchModelNotFound
    \/ DispatchGetEndpoint
    \/ ApiSelect
    \/ DispatchMarkRequestStart
    \/ DispatchCall
    \/ DispatchTranslate
    \/ DispatchLogUsage
    \/ StreamNext
    \/ StreamResume

SpecDispatch == InitDispatch /\ [][NextDispatch]_vars

(* ------------------------- get_load_balancer -------------------------- *)

\* The module-level state of load_balancer.py before the first call.  In this
\* specification history holds _global_load_balancer (0 for None, else the
\* number of the instance) and the strategies of the LoadBalancer instances
\* constructed so far, in order; strategy is the strategy of the global
\* instance; a caller's frame holds its strategy argument, whether it found
\* the global None at the first test, and the instance it got.
GlbCallers == {"t1", "t2", "t3"}
GlbStrategies == {"round_robin", "random"}

GlbIdle == [pc |-> "idle", strategy |-> None, waited |-> FALSE, ret |-> 0]

InitSingleton ==
    /\ strategy = None
    /\ endpoint_stats = <<>>
    /\ round_robin_counters = <<>>
    /\ now = 0
    /\ thread = [t \in GlbCallers |-> GlbIdle]
    /\ req = [t \in Callers |-> NoRequest]
    /\ history = [global |-> 0, constructed |-> <<>>]

\* _lb_lock is held by the caller inside the with block
LbLockFree == \A t \in DOMAIN thread : thread[t].pc # "locked"

\* "if _global_load_balancer is None:", the test outside the lock
GlbFirstTest ==
    /\ \E t \in DOMAIN thread, st \in GlbStrategies :
          /\ thread[t].pc = "idle"
          /\ thread' = [thread EXCEPT ![t] =
                [pc |-> IF history.global = 0 THEN "wait" ELSE "return",
                 strategy |-> st, waited |-> history.global = 0, ret |-> 0]]
    /\ UNCHANGED <<lbvars, req, history>>

\* "with _lb_lock:"
GlbAcquire ==
    /\ \E t \in DOMAIN thread :
          /\ thread[t].pc = "wait"
          /\ LbLockFree
          /\ thread' = [thread EXCEPT ![t].pc = "locked"]
    /\ UNCHANGED <<lbvars, req, history>>

GlbConstruct_unchecked ==
    /\ \E t \in DOMAIN thread :
          /\ thread[t].pc = "locked"
          /\ history' = [global |-> Len(history.constructed) + 1,
                         constructed |-> Append(history.constructed, thread[t].strategy)]
          /\ strategy' = thread[t].strategy
          /\ thread' = [thread EXCEPT ![t].pc = "return"]
    /\ UNCHANGED <<endpoint_stats, round_robin_counters, now, req>>

\* the body of the with block: the second test, the construction, the release
GlbConstruct ==
    /\ \E t \in DOMAIN thread :
          /\ thread[t].pc = "locked"
          /\ IF history.global = 0
             THEN /\ history' = [global |-> Len(history.constructed) + 1,
                                 constructed |-> Append(history.constructed, thread[t].strategy)]
                  /\ strategy' = thread[t].strategy
             ELSE UNCHANGED <<history, strategy>>
          /\ thread' = [thread EXCEPT ![t].pc = "return"]
    /\ UNCHANGED <<endpoint_stats, round_robin_counters, now, req>>

\* "return _global_load_balancer"
GlbReturn ==
    /\ \E t \in DOMAIN thread :
          /\ thread[t].pc = "return"
          /\ thread' = [thread EXCEPT ![t].pc = "returned", ![t].ret = history.global]
    /\ UNCHANGED <<lbvars, req, history>>

\* the caller goes on, and may call again later
GlbAgain ==
    /\ \E t \in DOMAIN thread :
          /\ thread[t].pc = "returned"
          /\ thread' = [thread EXCEPT ![t] = GlbIdle]
    /\ UNCHANGED <<lbvars, req, history>>

NextSingleton ==
    \/ GlbFirstTest
    \/ GlbAcquire
    \/ GlbConstruct
    \/ GlbReturn
    \/ GlbAgain

SpecSingleton == InitSingleton /\ [][NextSingleton]_vars

(* ------------- the accounting of one endpoint over time --------------- *)

AcctEndpoints == {<<"a", 80>>}

InitAccounting == InitBalancer({"round_robin"})

AcctMarkRequestStart ==
    /\ \E e \in AcctEndpoints, m \in ModelNames : MarkRequestStart(e[1], e[2], m)
    /\ UNCHANGED <<thread, req, history>>

\* one failure more than MaxFailures, so that a burst can be followed by
\* a further failure
AcctMarkRequestEnd ==
    /\ \E e \in AcctEndpoints, m \in ModelNames, success \in BOOLEAN :
          /\ ~ success =>
                Field(endpoint_stats, e[1], e[2], m, "total_failures") <= MaxFailures
          /\ endpoint_stats' = mark_request_end(endpoint_stats, e[1], e[2], m, success, now)
          /\ UNCHANGED <<strategy, round_robin_counters, now>>
    /\ UNCHANGED <<thread, req, history>>

NextAccounting ==
    \/ HealthGetEndpoint
    \/ ApiSelect
    \/ ApiReturn
    \/ AcctMarkRequestStart
    \/ AcctMarkRequestEnd
    \/ HealthTick

SpecAccounting == InitAccounting /\ [][NextAccounting]_vars

(* ------------- two models configured with the same endpoints --------- *)

TwoModels == {"m1", "m2"}

\* a:80 is configured for both models, c:80 for none
MarkedEndpoints == {<<"a", 80>>, <<"c", 80>>}

\* the operation of the last step and its arguments
Op(name, m, e) == [op |-> name, model |-> m, key |-> e]

InitModels ==
    /\ strategy = "round_robin"
    /\ endpoint_stats = <<>>
    /\ round_robin_counters = <<>>
    /\ now = 0
    /\ thread = [t \in Callers |-> Idle]
    /\ req = [t \in Callers |-> NoRequest]
    /\ history = Op("none", None, <<>>)

MdlGetEndpoint ==
    /\ \E t \in DOMAIN thread, m \in TwoModels :
          /\ GetEndpointBegin(t, <<"a", "b">>, <<80>>, m)
          /\ history' = Op("get_endpoint", m, <<>>)
    /\ UNCHANGED req

MdlSelect ==
    /\ \E t \in DOMAIN thread :
          /\ GetEndpointSelect(t)
          /\ history' = Op("get_endpoint", thread[t].model_name, <<>>)
    /\ UNCHANGED req

MdlReturn ==
    /\ \E t \in DOMAIN thread :
          /\ GetEndpointReturn(t)
          /\ history' = Op("get_endpoint", thread[t].model_name, <<>>)
    /\ UNCHANGED req

MdlMarkRequestStart ==
    /\ \E e \in MarkedEndpoints, m \in TwoModels :
          /\ MarkRequestStart(e[1], e[2], m)
          /\ history' = Op("mark_request_start", m, e)
    /\ UNCHANGED <<thread, req>>

\* the requests fail: a failure writes every field mark_request_end can write
MdlMarkRequestEnd ==
    /\ \E e \in MarkedEndpoints, m \in TwoModels :
          /\ Field(endpoint_stats, e[1], e[2], m, "total_failures") < MaxRequests
          /\ MarkRequestEnd(e[1], e[2], m, FALSE)
          /\ history' = Op("mark_request_end", m, e)
    /\ UNCHANGED <<thread, req>>

MdlGetStats ==
    /\ \E m \in TwoModels :
          /\ GetStats(m)
          /\ history' = Op("get_stats", m, <<>>)
    /\ UNCHANGED <<thread, req>>

MdlResetStats ==
    /\ \E m \in TwoModels \cup {None} :
          /\ ResetStats(m)
          /\ history' = Op("reset_stats", m, <<>>)
    /\ UNCHANGED <<thread, req>>

NextModels ==
    \/ MdlGetEndpoint
    \/ MdlSelect
    \/ MdlReturn
    \/ MdlMarkRequestStart
    \/ MdlMarkRequestEnd
    \/ MdlGetStats
    \/ MdlResetStats

SpecModels == InitModels /\ [][NextModels]_vars

(* ------------- host lists and port lists of different lengths -------- *)

PairedHostLists == {<<"a", "b">>, <<"a", "b", "c">>}
PairedPortLists == {<<>>, <<80>>, <<80, 81>>, <<80, 81, 82>>}

\* the arguments of the get_endpoint call in progress
NoCall == [hosts |-> <<>>, ports |-> <<>>]

InitPaired ==
    /\ strategy \in Strategies
    /\ endpoint_stats = <<>>
    /\ round_robin_counters = <<>>
    /\ now = 0
    /\ thread = [t \in Callers |-> Idle]
    /\ req = [t \in Callers |-> NoRequest]
    /\ history = NoCall

PairedGetEndpoint ==
    /\ \E t \in DOMAIN thread, hosts \in PairedHostLists, ports \in PairedPortLists,
          m \in ModelNames :
          /\ GetEndpointBegin(t, hosts, ports, m)
          /\ history' = [hosts |-> hosts, ports |-> ports]
    /\ UNCHANGED req

PairedSelect ==
    /\ \E t \in DOMAIN thread : GetEndpointSelect(t)
    /\ UNCHANGED <<req, history>>

PairedReturn ==
    /\ \E t \in DOMAIN thread : GetEndpointReturn(t)
    /\ history' = NoCall
    /\ UNCHANGED req

NextPaired ==
    \/ PairedGetEndpoint
    \/ PairedSelect
    \/ PairedReturn

SpecPaired == InitPaired /\ [][NextPaired]_vars

(* ------------- concurrent requests for one model ---------------------- *)

Workers == {"t1", "t2"}

\* a request: idle, calling get_endpoint, started on endpoint ep; round counts
\* the requests the worker has made
NewWorker == [pc |-> "idle", ep |-> <<>>, round |-> 0]

\* per endpoint, the completed mark_request_start calls and the completed
\* mark_request_end(success=False) calls; the reset_stats calls
NoCounts ==
    [starts |-> [e \in Endpoints |-> 0], fails |-> [e \in Endpoints |-> 0], resets |-> 0]

InitConcurrent ==
    /\ strategy \in {"round_robin", "least_connections"}
    /\ endpoint_stats = <<>>
    /\ round_robin_counters = <<>>
    /\ now = 0
    /\ thread = [t \in Workers |-> Idle]
    /\ req = [t \in Workers |-> NewWorker]
    /\ history = NoCounts

CcGetEndpoint ==
    /\ \E t \in Workers, m \in ModelNames :
          /\ req[t].pc = "idle"
          /\ req[t].round < MaxRounds
          /\ GetEndpointBegin(t, <<"a", "b">>, <<80>>, m)
          /\ req' = [req EXCEPT ![t].pc = "calling", ![t].round = @ + 1]
    /\ UNCHANGED history

CcSelect ==
    /\ \E t \in Workers : req[t].pc = "calling" /\ GetEndpointSelect(t)
    /\ UNCHANGED <<req, history>>

\* get_endpoint raised: the request ends without a start
CcRaised ==
    /\ \E t \in Workers :
          /\ req[t].pc = "calling"
          /\ thread[t].pc = "raised"
          /\ thread' = [thread EXCEPT ![t] = Idle]
          /\ req' = [req EXCEPT ![t].pc = "idle"]
    /\ UNCHANGED <<lbvars, history>>

CcMarkRequestStart ==
    /\ \E t \in Workers :
          /\ req[t].pc = "calling"
          /\ thread[t].pc = "returned"
          /\ LET e == thread[t].ret
                 m == thread[t].model_name
             IN  /\ endpoint_stats' = mark_request_start(endpoint_stats, e[1], e[2], m)
                 /\ req' = [req EXCEPT ![t].pc = "started", ![t].ep = e]
                 /\ history' = [history EXCEPT !.starts[e] = @ + 1]
          /\ thread' = [thread EXCEPT ![t] = Idle]
    /\ UNCHANGED <<strategy, round_robin_counters, now>>

CcMarkRequestEnd ==
    /\ \E t \in Workers, m \in ModelNames, success \in BOOLEAN :
          /\ req[t].pc = "started"
          /\ LET e == req[t].ep
             IN  /\ endpoint_stats' = mark_request_end(endpoint_stats, e[1], e[2], m, success, now)
                 /\ history' = IF success THEN history
                               ELSE [history EXCEPT !.fails[e] = @ + 1]
          /\ req' = [req EXCEPT ![t].pc = "idle", ![t].ep = <<>>]
    /\ UNCHANGED <<strategy, round_robin_counters, now, thread>>

CcResetStats ==
    /\ history.resets < MaxResets
    /\ \E m \in ModelNames \cup {None} : ResetStats(m)
    /\ history' = [history EXCEPT !.resets = @ + 1]
    /\ UNCHANGED <<thread, req>>

NextConcurrent ==
    \/ CcGetEndpoint
    \/ CcSelect
    \/ CcRaised
    \/ CcMarkRequestStart
    \/ CcMarkRequestEnd
    \/ CcResetStats

SpecConcurrent == InitConcurrent /\ [][NextConcurrent]_vars

(* ------------- round robin under concurrent callers ------------------ *)

\* the selections made since the last reset_stats, in the order in which the
\* selectors held the lock
NoLog == <<>>

InitRace ==
    /\ strategy = "round_robin"
    /\ endpoint_stats = <<>>
    /\ round_robin_counters = <<>>
    /\ now = 0
    /\ thread = [t \in Workers |-> Idle]
    /\ req = [t \in Workers |-> NewWorker]
    /\ history = NoLog

RaceGetEndpoint ==
    /\ \E t \in Workers, m \in ModelNames : GetEndpointBegin(t, <<"a", "b">>, <<80>>, m)
    /\ UNCHANGED <<req, history>>

\* the selector of caller t, and the record of it: the counter it read, the
\* pair it returned, and whether another call was in progress at that moment
RaceSelect ==
    /\ \E t \in Workers :
          /\ GetEndpointSelect(t)
          /\ history' =
                IF thread'[t].pc # "returned" THEN history
                ELSE Append(history,
                            [caller |-> t,
                             counter |-> TouchCounter(round_robin_counters,
                                                      thread[t].model_name)[thread[t].model_name],
                             pick |-> thread'[t].ret,
                             racing |-> \E u \in Workers \ {t} : thread[u].pc = "select"])
    /\ UNCHANGED req

RaceReturn ==
    /\ \E t \in Workers : GetEndpointReturn(t)
    /\ UNCHANGED <<req, history>>

RaceResetStats ==
    /\ \E m \in ModelNames \cup {None} : ResetStats(m)
    /\ history' = NoLog
    /\ UNCHANGED <<thread, req>>

NextRace ==
    \/ RaceGetEndpoint
    \/ RaceSelect
    \/ RaceReturn
    \/ RaceResetStats

SpecRace == InitRace /\ [][NextRace]_vars

(* --------------- properties of the dispatch functions ----------------- *)

Terminated(r) == r.pc \in {"none", "done"}

Buffered(r) == r.fn \in DispatchFunctions /\ ~ Fn(r.fn).stream

\* a buffered function cancelled while it awaits the downstream call
CancelledCall(r) == Buffered(r) /\ r.exc = "CancelledError"

\* C1: on every exit path of every dispatch function after mark_request_start
\* (return, exception of the call or of the translation, ValueError re-raised,
\* consumer of a stream stopping or cancelled) the matching mark_request_end
\* has run: when every request has terminated, no endpoint has a connection left
C1_NoConnectionLeftOpen ==
    (\A t \in DOMAIN req : Terminated(req[t]) /\ ~ CancelledCall(req[t]))
        => \A m \in DOMAIN endpoint_stats : \A k \in DOMAIN endpoint_stats[m] :
              endpoint_stats[m][k].active_connections = 0

\* C2: a request that reached the balancer has called get_endpoint once,
\* mark_request_start once and mark_request_end once when it terminates,
\* whatever the downstream call, the translation and the usage log did
C2_ExactlyOnce ==
    \A t \in DOMAIN req :
        (req[t].pc = "done" /\ req[t].model \in ModelNames /\ ~ CancelledCall(req[t])) =>
            (req[t].nGet = 1 /\ req[t].nStart = 1 /\ Len(req[t].ends) = 1)

\* C3: a buffered dispatch function that ends with an exception of the
\* downstream call or of the translation has called
\* mark_request_end(success=False) last, and the exception is a RuntimeError
C3_FailureIsRuntimeError ==
    \A t \in DOMAIN req :
        (/\ req[t].pc = "done"
         /\ req[t].nStart > 0
         /\ Buffered(req[t])
         /\ req[t].exc \notin {None} \cup BaseExceptions)
        => (/\ req[t].ends # <<>>
            /\ ~ req[t].ends[Len(req[t].ends)]
            /\ req[t].exc = "RuntimeError")

Streamed(r) == r.fn \in DispatchFunctions /\ Fn(r.fn).stream

\* C13: a streamed dispatch calls mark_request_end neither while chunks are
\* forwarded nor before the final [DONE]; mark_request_end(success=True) comes
\* only after all of it was forwarded, and a stream forwarded in full with no
\* downstream error is recorded as a success, never as a failure
C13_StreamEndDeferred ==
    \A t \in DOMAIN req :
        Streamed(req[t]) =>
            /\ req[t].pc \in {"stream", "yield_chunk", "yield_done"} => req[t].ends = <<>>
            /\ (\E i \in DOMAIN req[t].ends : req[t].ends[i]) =>
                  (/\ req[t].sent # <<>>
                   /\ req[t].sent[Len(req[t].sent)] = "[DONE]"
                   /\ \A i \in DOMAIN req[t].sent : req[t].sent[i] # "error")
            /\ (req[t].pc = "done" /\ req[t].exc = None /\ req[t].cause \notin {"call", "stream"})
                  => req[t].ends = <<TRUE>>

\* the downstream call of a stream, or the iteration over it, raised an error
StreamFailed(r) ==
    /\ Streamed(r)
    /\ r.cause \in {"call", "stream"}
    /\ r.raised \in {"APIError", "Exception"}

\* C14: a streamed dispatch that fails on opening the stream or after some
\* chunks calls mark_request_end(success=False), then yields one error chunk
\* and the [DONE] marker and finishes; no exception leaves the generator
\* (GeneratorExit is the consumer closing it)
C14_StreamErrorChunk ==
    \A t \in DOMAIN req :
        StreamFailed(req[t]) =>
            /\ req[t].ends = <<FALSE>>
            /\ Cardinality({i \in DOMAIN req[t].sent : req[t].sent[i] = "error"}) = 1
            /\ req[t].exc \in {None, "GeneratorExit"}
            /\ (req[t].pc = "done" /\ req[t].exc = None) =>
                  (/\ Len(req[t].sent) >= 2
                   /\ req[t].sent[Len(req[t].sent) - 1] = "error"
                   /\ req[t].sent[Len(req[t].sent)] = "[DONE]")

\* a stream failed after a chunk was forwarded, and the generator finished
C14_Witness ==
    \E t \in DOMAIN req :
        /\ StreamFailed(req[t])
        /\ req[t].cause = "stream"
        /\ req[t].sent = <<"chunk", "error", "[DONE]">>
        /\ req[t].pc = "done"
        /\ req[t].exc = None

\* C15: when the usage log raises after a downstream call that succeeded, the
\* function still returns its response (a stream yields no error chunk) and
\* the request is recorded as a success, not as a failure
C15_UsageLogIsBestEffort ==
    \A t \in DOMAIN req :
        req[t].cause = "log" =>
            /\ req[t].exc = None
            /\ \A i \in DOMAIN req[t].sent : req[t].sent[i] # "error"
            /\ \A i \in DOMAIN req[t].ends : req[t].ends[i]

\* C16: a request for a model that is not configured ends with the
\* not-found error before any call to the balancer: no get_endpoint, no
\* mark_request_start, no mark_request_end, and the stats table and the
\* round-robin counters stay as they were
C16_UnknownModelFailsFast ==
    [][\A t \in DOMAIN req :
          (req'[t] # req[t] /\ req'[t].model \notin ModelNames)
          => (/\ req'[t].pc = "done"
              /\ req'[t].exc = "ValueError"
              /\ req'[t].nGet = 0 /\ req'[t].nStart = 0 /\ req'[t].ends = <<>>
              /\ UNCHANGED <<endpoint_stats, round_robin_counters>>)]_vars

\* such a request was rejected while the table holds an open connection of
\* an earlier request
C16_Witness ==
    \E t \in DOMAIN req :
        /\ req[t].model = "unknown"
        /\ req[t].exc = "ValueError"
        /\ \E m \in DOMAIN endpoint_stats : \E k \in DOMAIN endpoint_stats[m] :
              endpoint_stats[m][k].total_requests > 0

(* ------------------- properties of the balancer ----------------------- *)

\* every EndpointStats object of the table
AllStats ==
    UNION {{endpoint_stats[m][k] : k \in DOMAIN endpoint_stats[m]} : m \in DOMAIN endpoint_stats}

\* C4: no operation of the balancer raises, whatever the host and port lists
\* and the interleaving, except get_endpoint's ValueError for an empty host list
C4_OnlyInvalidInputRaises ==
    \A t \in DOMAIN thread :
        thread[t].pc = "raised" =>
            (thread[t].hosts = <<>> /\ thread[t].ret = <<"ValueError">>)

\* C5: while a caller is inside a multi-host get_endpoint, between ensuring the
\* entries and the strategy's choice, no other operation takes effect on the
\* balancer: the lock is held from the one to the other
C5_LockHeldThroughout ==
    [][\A t \in DOMAIN thread :
          (thread[t].pc = "select" /\ thread'[t].pc = "select")
              => UNCHANGED <<endpoint_stats, round_robin_counters>>]_vars

\* C6: active_connections of every entry is never negative, also when more
\* requests are ended than were started
C6_ActiveConnectionsNonNegative ==
    \A s \in AllStats : s.active_connections >= 0

\* more ends than starts on an entry, whose connection count stayed at 0
C6_Witness ==
    \E s \in AllStats :
        /\ s.total_failures > s.total_requests
        /\ s.total_requests > 0
        /\ s.active_connections = 0

\* N consecutive selections from one stable healthy list of N >= 2 endpoints
FullWindow ==
    /\ Len(history.healthy) >= 2
    /\ Len(history.picks) = Len(history.healthy)

ResetInWindow == \E i \in 2 .. Len(history.picks) : history.picks[i].reset

\* each healthy endpoint once, in list order from (counter mod N)
InRotation ==
    LET h == history.healthy
        n == Len(h)
    IN  \A i \in 1 .. n :
           history.picks[i].pick = h[((history.picks[1].counter + i - 1) % n) + 1]

\* C7 (as stated): under round_robin, any N consecutive get_endpoint calls
\* for a model with a stable healthy set of N >= 2 endpoints return each
\* healthy endpoint exactly once, in list order starting at (counter mod N),
\* counter being the model's counter before the first call
C7_AnyConsecutiveCalls == FullWindow => InRotation

\* C7 (amended): the same for N consecutive calls between which reset_stats
\* did not run
C7_RoundRobinCoverage == (FullWindow /\ ~ ResetInWindow) => InRotation

\* two selections from the two healthy endpoints of three, the first of them
\* at an odd counter: the second healthy endpoint, then the first
C7_Witness ==
    /\ FullWindow
    /\ ~ ResetInWindow
    /\ Len(history.healthy) = 2
    /\ history.picks[1].counter % 2 = 1
    /\ history.picks[1].pick = history.healthy[2]
    /\ history.picks[2].pick = history.healthy[1]

Unhealthy(s) ==
    /\ s.consecutive_failures >= FailureThreshold
    /\ s.last_failure # NoTime
    /\ (now - s.last_failure) < HealthWindow

HealthySubset(m) == Range(_get_healthy_endpoints(endpoint_stats, <<"a", "b">>, <<80, 80>>, m, now))

Entry(m, e) == endpoint_stats[m][Key(e[1], e[2])]

HasEntries(m) ==
    m \in DOMAIN endpoint_stats /\ ~ MissingEntry(endpoint_stats, <<"a", "b">>, <<80, 80>>, m)

\* C8: an entry with three consecutive failures, the last less than 5 minutes
\* ago, is not in the healthy subset get_endpoint uses; one
\* mark_request_end(success=True) on it sets consecutive_failures to 0 and
\* puts it back in the healthy subset in the same step
C8_HealthTransition ==
    /\ [](\A m \in ModelNames : HasEntries(m) =>
             \A e \in Endpoints : Unhealthy(Entry(m, e)) => e \notin HealthySubset(m))
    /\ [][\A m \in ModelNames, e \in Endpoints :
             (/\ HasEntries(m)
              /\ Unhealthy(Entry(m, e))
              /\ endpoint_stats' = mark_request_end(endpoint_stats, e[1], e[2], m, TRUE, now))
             => (/\ Entry(m, e)'.consecutive_failures = 0
                 /\ now' = now
                 /\ e \in HealthySubset(m)')]_vars

\* get_endpoint passed over an endpoint that failed three times in a row
C8_Witness ==
    \E t \in DOMAIN thread, m \in ModelNames :
        /\ HasEntries(m)
        /\ Unhealthy(Entry(m, <<"a", 80>>))
        /\ Entry(m, <<"a", 80>>).consecutive_failures = FailureThreshold
        /\ thread[t].pc = "returned"
        /\ thread[t].ret = <<"b", 80>>
        /\ ~ thread[t].warned

Healed(s) ==
    /\ s.consecutive_failures >= FailureThreshold
    /\ s.last_failure # NoTime
    /\ (now - s.last_failure) > HealthWindow

\* C9: an entry with three or more consecutive failures and no success since
\* is in the healthy subset again once its last failure is more than 5
\* minutes old
C9_SelfHeal ==
    \A m \in ModelNames : HasEntries(m) =>
        \A e \in Endpoints : Healed(Entry(m, e)) => e \in HealthySubset(m)

\* get_endpoint returned such an endpoint, from a healthy subset that is not a fallback
C9_Witness ==
    \E t \in DOMAIN thread, m \in ModelNames :
        /\ HasEntries(m)
        /\ Healed(Entry(m, <<"b", 80>>))
        /\ thread[t].pc = "returned"
        /\ thread[t].ret = <<"b", 80>>
        /\ ~ thread[t].warned

AllUnhealthy(m) == HasEntries(m) /\ \A e \in Endpoints : Unhealthy(Entry(m, e))

C11_NextLowestIsThird ==
    /\ history.phase # "none" => history.first = <<"b", 80>>
    /\ history.phase = "second" => history.second = <<"c", 80>>

\* C11 (amended): ... after mark_request_start on it the connections are
\* [3, 1, 1] and the next get_endpoint returns the same endpoint again, the
\* first in list order of the two that share the minimum
C11_NextLowestIsFirstOfTie ==
    /\ history.phase # "none" => history.first = <<"b", 80>>
    /\ history.phase = "second" => history.second = <<"b", 80>>

\* both selections of the scenario were made
C11_Witness ==
    /\ history.phase = "second"
    /\ \E m \in ModelNames : ActiveVector(endpoint_stats, m) = <<3, 1, 1>>

\* the entries of the table, without the models that have none
Counters(es) == [m \in {x \in DOMAIN es : DOMAIN es[x] # {}} |-> es[m]]

\* a get_endpoint call of caller t with one host returns in this step
SingleHostCall(t) ==
    /\ thread[t].pc = "idle"
    /\ thread'[t].pc # "idle"
    /\ Len(thread'[t].hosts) = 1

\* the pair a one-host call is to return
SingleHostResult(f) ==
    <<f.hosts[1], IF f.ports # <<>> THEN f.ports[1] ELSE DefaultPort>>

\* mark_request_start or mark_request_end on the pair caller t got from a one-host call
MarkOnSingleHost(t) ==
    /\ thread[t].pc = "returned"
    /\ Len(thread[t].hosts) = 1
    /\ \/ endpoint_stats' = mark_request_start(endpoint_stats, thread[t].ret[1],
                                               thread[t].ret[2], thread[t].model_name)
       \/ \E success \in BOOLEAN :
             endpoint_stats' = mark_request_end(endpoint_stats, thread[t].ret[1],
                                   thread[t].ret[2], thread[t].model_name, success, now)

ShortcutLeavesBalancer(t) ==
    SingleHostCall(t) =>
        /\ thread'[t].pc = "returned"
        /\ thread'[t].ret = SingleHostResult(thread'[t])
        /\ UNCHANGED lbvars

\* C12 (as stated): get_endpoint with one host returns it with the first port
\* (the default port when there is none) and leaves the balancer as it was;
\* the mark_request_start and mark_request_end that follow change no counters
C12_SingleHostNeverCounts ==
    [][\A t \in DOMAIN thread :
          /\ ShortcutLeavesBalancer(t)
          /\ MarkOnSingleHost(t) => Counters(endpoint_stats') = Counters(endpoint_stats)]_vars

\* C12 (amended): ... the mark_request_start and mark_request_end that follow
\* change no counters unless an entry for the pair exists under the model,
\* created by an earlier multi-host get_endpoint
C12_SingleHostShortcut ==
    [][\A t \in DOMAIN thread :
          /\ ShortcutLeavesBalancer(t)
          /\ (/\ MarkOnSingleHost(t)
              /\ Key(thread[t].ret[1], thread[t].ret[2])
                    \notin DOMAIN Touch(endpoint_stats, thread[t].model_name)[thread[t].model_name])
             => Counters(endpoint_stats') = Counters(endpoint_stats)]_vars

\* a one-host call returned the default port; the model's dict exists (a mark
\* or a get_stats read it) and holds no entry, and no counter was created
C12_Witness ==
    \E t \in DOMAIN thread :
        /\ thread[t].pc = "returned"
        /\ thread[t].hosts = <<"a">>
        /\ thread[t].ret = <<"a", DefaultPort>>
        /\ thread[t].model_name \in DOMAIN endpoint_stats
        /\ Counters(endpoint_stats) = <<>>
        /\ round_robin_counters = <<>>

\* C17: under any interleaving of first calls to get_load_balancer one
\* LoadBalancer is constructed, every call returns that instance, and the
\* strategy argument of a call after the construction has no effect
C17_OneBalancer ==
    /\ Len(history.constructed) <= 1
    /\ history.global = Len(history.constructed)
    /\ \A t \in DOMAIN thread : thread[t].pc = "returned" => thread[t].ret = 1
    /\ history.constructed # <<>> => strategy = history.constructed[1]

\* two callers that both found the global None, with different strategy
\* arguments, got the same instance; its strategy is not the second caller's
C17_Witness ==
    \E t, u \in DOMAIN thread :
        /\ thread[t].pc = "returned" /\ thread[u].pc = "returned"
        /\ thread[t].waited /\ thread[u].waited
        /\ thread[t].strategy # thread[u].strategy
        /\ thread[t].ret = thread[u].ret
        /\ strategy = thread[t].strategy

\* the pairs weighted_round_robin may return for the hosts a, b of model m
WeightedChoices(m) ==
    _weighted_round_robin_select(Candidates(endpoint_stats, <<"a", "b">>, <<80, 80>>, m, now),
                                 endpoint_stats[m], now)

\* C18: for all counters, also total_failures >= total_requests, a healthy
\* endpoint has a weight from 0.1 to 1.0 and only an unhealthy one has weight
\* 0, so weighted_round_robin can return every healthy endpoint; at 100
\* requests and 95 failures the weight is 0.1
C18_WeightBounds ==
    /\ \A s \in AllStats :
          LET w == weight(s, now)
          IN  /\ is_healthy(s, now) => (10 * w[1] >= w[2] /\ w[1] <= w[2])
              /\ w[1] = 0 <=> ~ is_healthy(s, now)
    /\ \A m \in ModelNames :
          HasEntries(m) => HealthySubset(m) \subseteq WeightedChoices(m)
    /\ LET s == [NewStats("a", 80) EXCEPT !.total_requests = 100, !.total_failures = 95]
           w == weight(s, now)
       IN  10 * w[1] = w[2]

\* a healthy entry with as many failures as requests or more: its weight is
\* the floor 0.1, and the weighted strategy can return it
C18_Witness ==
    /\ strategy = "weighted_round_robin"
    /\ \E m \in ModelNames :
          /\ HasEntries(m)
          /\ LET s == Entry(m, <<"a", 80>>)
             IN  /\ s.total_requests > 0
                 /\ s.total_failures > s.total_requests
                 /\ is_healthy(s, now)
                 /\ 10 * weight(s, now)[1] = weight(s, now)[2]
          /\ <<"a", 80>> \in WeightedChoices(m)

\* the configured pairs of frame f whose entry is healthy now
HealthyOf(f) ==
    {e \in Range(Zip(f.hosts, f.ports)) : ~ Unhealthy(Entry(f.model_name, e))}

\* C19: under every strategy, when a configured endpoint of a multi-host
\* model is healthy at selection time get_endpoint returns a healthy one; it
\* returns an unhealthy endpoint only when all of them are unhealthy
C19_HealthyPreferred ==
    [][\A t \in DOMAIN thread :
          (/\ thread[t].pc = "select"
           /\ thread'[t].pc = "returned"
           /\ HealthyOf(thread[t]) # {})
          => thread'[t].ret \in HealthyOf(thread[t])]_vars

\* least_connections passed over the first endpoint, which is unhealthy
C19_Witness ==
    \E t \in DOMAIN thread :
        /\ strategy = "least_connections"
        /\ thread[t].pc = "returned"
        /\ thread[t].ret = <<"b", 80>>
        /\ ~ thread[t].warned
        /\ HasEntries(thread[t].model_name)
        /\ HealthyOf(thread[t]) = {<<"b", 80>>}

\* the endpoints least_connections chooses among for frame f: the healthy
\* configured pairs, or every configured pair when none is healthy
Pool(f) == IF HealthyOf(f) # {} THEN HealthyOf(f) ELSE Range(Zip(f.hosts, f.ports))

Exists(m, e) == m \in DOMAIN endpoint_stats /\ Key(e[1], e[2]) \in DOMAIN endpoint_stats[m]

\* this step is mark_request_end(e, m, success) and nothing else
EndStep(m, e, success) ==
    /\ endpoint_stats' = mark_request_end(endpoint_stats, e[1], e[2], m, success, now)
    /\ UNCHANGED <<strategy, round_robin_counters, now, thread>>

\* C21: mark_request_end on an existing entry takes one off active_connections
\* but not below 0; on failure it adds one to total_failures and to
\* consecutive_failures and sets last_failure to the current time; on success
\* it sets consecutive_failures to 0 and leaves total_failures, total_requests
\* and last_failure as they were
C21_MarkRequestEndEffects ==
    [][\A m \in ModelNames, e \in AcctEndpoints, success \in BOOLEAN :
          (Exists(m, e) /\ EndStep(m, e, success))
          => LET s == Entry(m, e)
                 s2 == Entry(m, e)'
             IN  /\ s2.active_connections =
                       (IF s.active_connections > 0 THEN s.active_connections - 1 ELSE 0)
                 /\ s2.total_requests = s.total_requests
                 /\ success => /\ s2.consecutive_failures = 0
                               /\ s2.total_failures = s.total_failures
                               /\ s2.last_failure = s.last_failure
                 /\ ~ success => /\ s2.total_failures = s.total_failures + 1
                                 /\ s2.consecutive_failures = s.consecutive_failures + 1
                                 /\ s2.last_failure = now]_vars

\* a request that started and then failed at a later minute, after an earlier
\* failure and a success
C21_Witness ==
    \E m \in ModelNames :
        /\ Exists(m, <<"a", 80>>)
        /\ Entry(m, <<"a", 80>>).total_requests = 1
        /\ Entry(m, <<"a", 80>>).active_connections = 0
        /\ Entry(m, <<"a", 80>>).total_failures = 2
        /\ Entry(m, <<"a", 80>>).consecutive_failures = 1
        /\ Entry(m, <<"a", 80>>).last_failure = now
        /\ now > 0

\* healthy again only because the last failure is more than 5 minutes old
HealedByTime(s) ==
    /\ s.consecutive_failures >= FailureThreshold
    /\ s.last_failure # NoTime
    /\ (now - s.last_failure) > HealthWindow

Marked(h) == h.op \in {"mark_request_start", "mark_request_end"}

\* C22: mark_request_start and mark_request_end for a (model, host:port)
\* without an EndpointStats entry create no entry, change no counter of any
\* entry and no round-robin counter, and return normally
C22_MissingEntryNoOp ==
    [][(Marked(history') /\ ~ Exists(history'.model, history'.key))
       => /\ Counters(endpoint_stats') = Counters(endpoint_stats)
          /\ round_robin_counters' = round_robin_counters
          /\ thread' = thread]_vars

\* mark_request_start has just run on an endpoint that is not configured, for
\* a model that has entries and a counter
C22_Witness ==
    /\ history.op = "mark_request_start"
    /\ ~ Exists(history.model, history.key)
    /\ Exists(history.model, <<"a", 80>>)
    /\ Entry(history.model, <<"a", 80>>).total_requests > 0
    /\ history.model \in DOMAIN round_robin_counters
    /\ round_robin_counters[history.model] > 0

\* the entries of model m in table es, none when the model is not in it
TableOf(es, m) == IF m \in DOMAIN es THEN es[m] ELSE <<>>

\* the round-robin counter of model m as the next selection would read it
CounterOf(rr, m) == IF m \in DOMAIN rr THEN rr[m] ELSE 0

\* C23: get_endpoint, mark_request_start and mark_request_end for one model
\* change no EndpointStats field, no health status and no round-robin counter
\* of another model, also when both are configured with the same host:port
C23_ModelsIsolated ==
    [][history'.op \in {"get_endpoint", "mark_request_start", "mark_request_end"}
       => \A other \in TwoModels \ {history'.model} :
             /\ TableOf(endpoint_stats', other) = TableOf(endpoint_stats, other)
             /\ CounterOf(round_robin_counters', other) = CounterOf(round_robin_counters, other)
             /\ \A k \in DOMAIN TableOf(endpoint_stats, other) :
                   Unhealthy(endpoint_stats[other][k])' = Unhealthy(endpoint_stats[other][k])]_vars

\* a failed request was just recorded on a:80 of one model, whose counter has
\* advanced, while the entry a:80 of the other model is as created
C23_Witness ==
    \E other \in TwoModels :
        /\ history.op = "mark_request_end"
        /\ history.key = <<"a", 80>>
        /\ history.model # other
        /\ Exists(history.model, <<"a", 80>>)
        /\ Entry(history.model, <<"a", 80>>).total_requests = 1
        /\ Entry(history.model, <<"a", 80>>).total_failures = 1
        /\ CounterOf(round_robin_counters, history.model) > 0
        /\ Exists(other, <<"a", 80>>)
        /\ Entry(other, <<"a", 80>>) = NewStats("a", 80)
        /\ CounterOf(round_robin_counters, other) = 0

\* C24: reset_stats(m) removes every entry of model m and sets its round-robin
\* counter to 0, leaving the entries and counters of every other model as they
\* were; reset_stats() removes the entries and counters of all models;
\* get_stats changes no entry, no counter and nothing else of the balancer
C24_ResetAndGetStatsFrame ==
    [][/\ (history'.op = "reset_stats" /\ history'.model \in TwoModels)
          => /\ TableOf(endpoint_stats', history'.model) = <<>>
             /\ CounterOf(round_robin_counters', history'.model) = 0
             /\ \A other \in TwoModels \ {history'.model} :
                   /\ TableOf(endpoint_stats', other) = TableOf(endpoint_stats, other)
                   /\ CounterOf(round_robin_counters', other)
                         = CounterOf(round_robin_counters, other)
       /\ (history'.op = "reset_stats" /\ history'.model = None)
          => \A m \in TwoModels :
                /\ TableOf(endpoint_stats', m) = <<>>
                /\ CounterOf(round_robin_counters', m) = 0
       /\ history'.op = "reset_stats" => UNCHANGED <<strategy, now, thread>>
       /\ history'.op = "get_stats"
          => /\ Counters(endpoint_stats') = Counters(endpoint_stats)
             /\ UNCHANGED <<round_robin_counters, strategy, now, thread>>]_vars

\* reset_stats(m) has just emptied the table of a model for which a caller
\* stands inside get_endpoint, while the other model keeps its counted request
\* and its advanced counter
C24_Witness ==
    \E t \in DOMAIN thread, other \in TwoModels :
        /\ history.op = "reset_stats"
        /\ history.model \in TwoModels \ {other}
        /\ thread[t].pc = "select"
        /\ thread[t].model_name = history.model
        /\ TableOf(endpoint_stats, history.model) = <<>>
        /\ history.model \in DOMAIN round_robin_counters
        /\ round_robin_counters[history.model] = 0
        /\ Exists(other, <<"a", 80>>)
        /\ Entry(other, <<"a", 80>>).total_requests = 1
        /\ CounterOf(round_robin_counters, other) > 0

\* the port host i is paired with, from the lists as the caller passed them
PortOf(hosts, ports, i) ==
    IF Len(ports) = 1 THEN ports[1]
    ELSE IF Len(ports) = Len(hosts) THEN ports[i]
    ELSE ports[1]

Pairing(hosts, ports) == {<<hosts[i], PortOf(hosts, ports, i)>> : i \in 1 .. Len(hosts)}

C26_NoLostUpdate ==
    /\ [](history.resets = 0 =>
             \A m \in ModelNames, e \in Endpoints :
                IF Exists(m, e)
                THEN /\ Entry(m, e).total_requests = history.starts[e]
                     /\ Entry(m, e).total_failures = history.fails[e]
                     /\ Entry(m, e).host = e[1] /\ Entry(m, e).port = e[2]
                ELSE history.starts[e] = 0 /\ history.fails[e] = 0)
    /\ [][history'.resets = history.resets =>
             \A m \in ModelNames, e \in Endpoints :
                Exists(m, e) =>
                   /\ Exists(m, e)'
                   /\ Entry(m, e)'.total_requests >= Entry(m, e).total_requests
                   /\ Entry(m, e)'.total_failures >= Entry(m, e).total_failures]_vars

\* the first requests of both workers were started on the same endpoint, one
\* is still in flight and the other failed
C26_Witness ==
    \E m \in ModelNames :
        /\ history.resets = 0
        /\ \A t \in Workers : req[t].round = 1
        /\ Exists(m, <<"a", 80>>)
        /\ Entry(m, <<"a", 80>>).total_requests = 2
        /\ Entry(m, <<"a", 80>>).total_failures = 1
        /\ Entry(m, <<"a", 80>>).active_connections = 1
        /\ \E t \in Workers : req[t].pc = "started" /\ req[t].ep = <<"a", 80>>

\* C28: in every reachable state every entry has total_failures <=
\* total_requests, for requests that call mark_request_start before their
\* mark_request_end, also when reset_stats runs while requests are in flight
C28_FailuresWithinRequests ==
    \A s \in AllStats : s.total_failures <= s.total_requests

\* C27: under round_robin, concurrent get_endpoint calls for one model read
\* and increment the counter atomically: with both endpoints healthy and no
\* reset_stats between them, no two calls read the same counter value, two
\* calls in a row return different endpoints, and the results are those of the
\* calls run one after the other in the order of their selections
C27_RoundRobinAtomic ==
    /\ \A i, j \in 1 .. Len(history) :
          i # j => history[i].counter # history[j].counter
    /\ \A i \in 1 .. (Len(history) - 1) : history[i].pick # history[i + 1].pick
    /\ \A i \in 1 .. Len(history) :
          /\ history[i].counter = i - 1
          /\ history[i].pick = <<(<<"a", "b">>)[((i - 1) % 2) + 1], 80>>

\* two callers were inside get_endpoint at the same time and both have their
\* results: the first got a, the second b
C27_Witness ==
    /\ Len(history) = 2
    /\ history[1].racing
    /\ history[1].caller # history[2].caller
    /\ \A t \in Workers : thread[t].pc = "returned"
    /\ thread[history[1].caller].ret = <<"a", 80>>
    /\ thread[history[2].caller].ret = <<"b", 80>>

\* C30: under least_connections, two concurrent requests, each calling
\* get_endpoint and then mark_request_start, on a model whose two endpoints are
\* healthy with 0 active connections, are started on different endpoints
C30_ConcurrentRequestsSpread ==
    (/\ strategy = "least_connections"
     /\ history.resets = 0
     /\ \A t \in Workers : req[t].round = 1 /\ req[t].pc = "started")
    => req["t1"].ep # req["t2"].ep

=============================================================================
